---- MODULE Spec2Model ----
(***************************************************************************)
(* A model of rsml-cli: the bidirectional multi-map, the alias table diff, *)
(* and the watcher context that turns file-system events and directory    *)
(* scans into compilations of .rsml files into .model.json artifacts.      *)
(***************************************************************************)
EXTENDS Integers, Sequences, FiniteSets, TLC

VARIABLES
    pc,            \* where the process is: "new", "watching", "panicked", "overflow" (or "map"/"diff")
    input_dir,     \* WatcherContext.input_dir
    output_dir,    \* WatcherContext.output_dir
    dependencies,  \* WatcherContext.dependencies : MultiBiMap<PathBuf, PathBuf>
    luaurc,        \* WatcherContext.luaurc : Option<(PathBuf, Luaurc)>
    sources,       \* the disk: existing .rsml files, path -> set of derive specifiers
    artifacts,     \* the disk: existing .model.json files, path -> id field
    luaurc_file,   \* the disk: Some(alias table of the configuration file), or None
    last,          \* what the last operation was and what it touched
    fresh,         \* the files whose last compilation by this process read their present text
    nedits,        \* number of file-system changes made so far
    nevents,       \* number of events handled so far
    tableA,        \* first argument of Aliases::diff
    tableB,        \* second argument of Aliases::diff
    diffOut,       \* the sequence Aliases::diff yielded
    elapsed,       \* start_time.elapsed() in the watch loop, in milliseconds
    vfs_closed,    \* the VFS event channel is disconnected: recv returns Err
    shutdown,      \* the shutdown channel holds a message or lost its sender
    readonly       \* the disk: output paths that fs::write cannot write

vars == <<pc, input_dir, output_dir, dependencies, luaurc, sources, artifacts,
          luaurc_file, last, fresh, nedits, nevents, tableA, tableB, diffOut, elapsed,
          vfs_closed, shutdown, readonly>>

\* Option<T>: None is the empty tuple, Some(x) the one-element tuple
None == <<>>

Some(x) == <<x>>

IsSome(opt) == opt # None

Unwrap(opt) == opt[1]

(***************************************************************************)
(* Paths.  A path is a sequence of components and a flag telling whether   *)
(* it starts at the root; a component is a base name and its dot-separated *)
(* extensions, so "a.model.json" is base "a" with extensions model, json.  *)
(***************************************************************************)
Name(b, e) == [base |-> b, exts |-> e]

Dir(b) == Name(b, <<>>)

ParentDir == Dir("..")

CurDir == Dir(".")

Abs(cs) == [abs |-> TRUE, comps |-> cs]

Rel(cs) == [abs |-> FALSE, comps |-> cs]

EmptyPath == Rel(<<>>)

Front(s) == SubSeq(s, 1, Len(s) - 1)

Last(s) == s[Len(s)]

\* Path::join: an absolute argument replaces the receiver
join(p, q) == IF q.abs THEN q ELSE [abs |-> p.abs, comps |-> p.comps \o q.comps]

RECURSIVE NormalizeFrom(_, _, _)
NormalizeFrom(isAbs, ret, rest) ==
    IF rest = <<>> THEN ret
    ELSE LET c == Head(rest)
             next == IF c = CurDir THEN ret
                     ELSE IF c = ParentDir
                          THEN IF Len(ret) > 0 /\ Last(ret) = ParentDir THEN Append(ret, ParentDir)
                               ELSE IF Len(ret) > 0 THEN Front(ret)
                               ELSE IF isAbs THEN ret
                               ELSE Append(ret, ParentDir)
                          ELSE Append(ret, c)
         IN NormalizeFrom(isAbs, next, Tail(rest))

normalize(p) == [abs |-> p.abs, comps |-> NormalizeFrom(p.abs, <<>>, p.comps)]

starts_with(p, base) ==
    /\ p.abs = base.abs
    /\ Len(base.comps) <= Len(p.comps)
    /\ SubSeq(p.comps, 1, Len(base.comps)) = base.comps

\* Path::strip_prefix: None stands for the Err that the callers unwrap
strip_prefix(p, base) ==
    IF starts_with(p, base)
    THEN Some(Rel(SubSeq(p.comps, Len(base.comps) + 1, Len(p.comps))))
    ELSE None

parent(p) == [abs |-> p.abs, comps |-> Front(p.comps)]

HasFileName(p) == Len(p.comps) > 0 /\ Last(p.comps) # ParentDir

\* Path::extension() == Some(OsStr::new(e))
extension_is(p, e) ==
    /\ HasFileName(p)
    /\ Len(Last(p.comps).exts) > 0
    /\ Last(Last(p.comps).exts) = e

\* the test written as a comparison of Path::extension() with "model.json"
extension_is_model_json(p) == extension_is(p, "model.json")

\* file_name.ends_with(".model.json")
ends_with_model_json(p) ==
    /\ HasFileName(p)
    /\ LET e == Last(p.comps).exts
       IN Len(e) >= 2 /\ e[Len(e) - 1] = "model" /\ e[Len(e)] = "json"

\* Path::file_stem: the file name without its last extension
file_stem(p) ==
    LET n == Last(p.comps)
    IN IF Len(n.exts) = 0 THEN n ELSE Name(n.base, Front(n.exts))

\* PathBuf::set_extension: the last extension is replaced by the given ones
set_extension(p, e) ==
    LET n == file_stem(p)
    IN [abs |-> p.abs, comps |-> Append(Front(p.comps), Name(n.base, n.exts \o e))]

(***************************************************************************)
(* MultiBiMap: two maps from a key to a set of keys of the other side.     *)
(***************************************************************************)
EmptyMap == [x \in {} |-> {}]

MultiBiMap_new == [left_to_right |-> EmptyMap, right_to_left |-> EmptyMap]

Without(f, ks) == [k \in (DOMAIN f) \ ks |-> f[k]]

\* entry(k).or_insert(HashSet::new()).insert(v)
EntryInsert(f, k, v) ==
    IF k \in DOMAIN f THEN [f EXCEPT ![k] = @ \cup {v}] ELSE f @@ (k :> {v})

\* the insert that records the pair in right_to_left alone
insert_right_only(m, left, right) ==
    [left_to_right |-> m.left_to_right,
     right_to_left |-> EntryInsert(m.right_to_left, right, left)]

\* the insert that records the pair in left_to_right alone
insert_left_only(m, left, right) ==
    [left_to_right |-> EntryInsert(m.left_to_right, left, right),
     right_to_left |-> m.right_to_left]

\* MultiBiMap::insert: the pair is recorded in both maps
insert(m, left, right) ==
    [left_to_right |-> EntryInsert(m.left_to_right, left, right),
     right_to_left |-> EntryInsert(m.right_to_left, right, left)]

\* the loop without the removal of a key whose set runs empty
Unlink_keep_empty(opposite, key, set) ==
    [k \in DOMAIN opposite |-> IF k \in set THEN opposite[k] \ {key} ELSE opposite[k]]

\* the loop removing every opposite key of the set, whatever else it holds
Unlink_drop_all(opposite, key, set) == Without(opposite, set)

\* the loop of remove_by_left / remove_by_right over the set of the removed
\* key: an opposite key whose set has one member is removed, otherwise the
\* removed key is taken out of its set
Unlink(opposite, key, set) ==
    LET touched == set \cap DOMAIN opposite
        dropped == {k \in touched : Cardinality(opposite[k]) = 1}
    IN [k \in (DOMAIN opposite) \ dropped |->
            IF k \in touched THEN opposite[k] \ {key} ELSE opposite[k]]

\* the removal of the left key alone, the sets of the right values left as they are
remove_left_key_only(m, left) ==
    [left_to_right |-> Without(m.left_to_right, {left}),
     right_to_left |-> m.right_to_left]

\* MultiBiMap::remove_by_left
remove_by_left(m, left) ==
    [left_to_right |-> Without(m.left_to_right, {left}),
     right_to_left |-> IF left \in DOMAIN m.left_to_right
                       THEN Unlink(m.right_to_left, left, m.left_to_right[left])
                       ELSE m.right_to_left]

\* MultiBiMap::remove_by_right
remove_by_right(m, right) ==
    [left_to_right |-> IF right \in DOMAIN m.right_to_left
                       THEN Unlink(m.left_to_right, right, m.right_to_left[right])
                       ELSE m.left_to_right,
     right_to_left |-> Without(m.right_to_left, {right})]

\* get_by_left / get_by_right return an Option; None is the absent key
get_by_left(m, left) ==
    IF left \in DOMAIN m.left_to_right THEN Some(m.left_to_right[left]) ELSE None

get_by_right(m, right) ==
    IF right \in DOMAIN m.right_to_left THEN Some(m.right_to_left[right]) ELSE None

\* the members of an Option<&HashSet>: none for None
Members(opt) == IF opt = None THEN {} ELSE Unwrap(opt)

(***************************************************************************)
(* The files of the modelled project.                                      *)
(***************************************************************************)
StackLimit == 8   \* frames the call stack holds before the process dies of stack overflow
MaxEdits == 1     \* file-system changes made while the process runs
MaxEvents == 1    \* events the watcher handles

InDir == Abs(<<Dir("in")>>)

OutDir == Abs(<<Dir("out")>>)

Stems == {"a", "b"}

RsmlFile(stem) == join(InDir, Rel(<<Name(stem, <<"rsml">>)>>))

SourcePaths == {RsmlFile(s) : s \in Stems}

\* a directory of the input directory that is on the disk no more
GoneDir == join(InDir, Rel(<<Dir("gone")>>))

LuaurcPath == join(InDir, Rel(<<Dir(".luaurc")>>))

\* derive specifiers a source text may hold: "../a", "../b.rsml"
DeriveSpecs ==
    { Rel(<<ParentDir, Name("a", <<>>)>>),
      Rel(<<ParentDir, Name("b", <<"rsml">>)>>) }

\* a derive specifier that names an alias: "@ui/b"
AliasDerive == Rel(<<Dir("@ui"), Name("b", <<>>)>>)

Dirs == {Abs(<<>>), InDir, OutDir}

\* an order on a finite set, as the sequence of its members
Orders(S) == {o \in [1..Cardinality(S) -> S] : \A i, j \in 1..Cardinality(S) : o[i] = o[j] => i = j}

RECURSIVE SetToSeq(_)
SetToSeq(S) ==
    IF S = {} THEN <<>>
    ELSE LET x == CHOOSE y \in S : TRUE IN <<x>> \o SetToSeq(S \ {x})

(***************************************************************************)
(* Alias tables (luaurc/mod.rs).  A table maps alias names to targets; the *)
(* BTreeMap iterates its keys in ascending order, here the order of        *)
(* AliasKeys.                                                              *)
(***************************************************************************)
MaxKeys == 3      \* alias names the tables given to Aliases::diff draw their keys from

AliasKeys == <<"@lib", "@pkg", "@ui", "@zed", "@zoo">>

AliasTargets == {"/libs/ui", "/libs/ui2"}

EmptyTable == [k \in {} |-> ""]

Tables(keys) == UNION {[ks -> AliasTargets] : ks \in SUBSET keys}

\* BTreeMap::iter: the keys of the table in ascending order
SortedKeys(t) == SelectSeq(AliasKeys, LAMBDA k : k \in DOMAIN t)

Rank(k) == CHOOSE i \in 1..Len(AliasKeys) : AliasKeys[i] = k

RECURSIVE DiffLoop(_, _, _, _)
DiffLoop(ia, ib, a, b) ==
    IF ia # <<>> /\ ib # <<>>
    THEN LET ka == Head(ia)
             kb == Head(ib)
         IN IF ka = kb
            THEN IF a[ka] = b[kb] THEN DiffLoop(Tail(ia), Tail(ib), a, b)
                 ELSE <<ka>> \o DiffLoop(Tail(ia), Tail(ib), a, b)
            ELSE IF Rank(ka) < Rank(kb) THEN <<ka>> \o DiffLoop(Tail(ia), ib, a, b)
            ELSE <<kb>> \o DiffLoop(ia, Tail(ib), a, b)
    ELSE IF ia # <<>> THEN <<Head(ia)>> \o DiffLoop(Tail(ia), ib, a, b)
    ELSE IF ib # <<>> THEN <<Head(ib)>> \o DiffLoop(ia, Tail(ib), a, b)
    ELSE <<>>

\* the merge with the values of the two tables taken to be equal
diff_keys_only(a, b) == DiffLoop(SortedKeys(a), SortedKeys(b), a, a)

\* Aliases::diff, as the sequence the iterator yields
diff(a, b) == DiffLoop(SortedKeys(a), SortedKeys(b), a, b)

\* the text of a configuration file: an alias table, or text that does not parse
Parsable(t) == [valid |-> TRUE, aliases |-> t]

Garbage == [valid |-> FALSE, aliases |-> EmptyTable]

\* Aliases::new: a parse failure yields the default, empty table
Aliases_new(contents) == IF contents.valid THEN contents.aliases ELSE EmptyTable

Luaurc_new(contents) == [aliases |-> Aliases_new(contents), dependants |-> MultiBiMap_new]

(***************************************************************************)
(* The compiler driver (rsml_to_model_json.rs).  The world w threaded      *)
(* through a handler holds what it can change: deps (the Dependency        *)
(* Graph), lua (the configuration binding), arts (the artifact files),     *)
(* fresh (the files compiled from their present text), log (the artifact   *)
(* writes and removals in order) and status ("ok", or "panic" after an     *)
(* unwrap of a failure, or "overflow" after the stack ran out).  Every     *)
(* intermediate value is handed on as a parameter, one step per operator.  *)
(***************************************************************************)
Logged(w, act, p, id) == [w EXCEPT !.log = Append(@, [act |-> act, path |-> p, id |-> id])]

Failed(w, how) == [w EXCEPT !.status = how]

\* format!("{}.rsml", derive) unless the specifier ends with ".rsml"
WithRsml(derive) ==
    IF extension_is(derive, "rsml") THEN derive
    ELSE [derive EXCEPT !.comps = Append(Front(derive.comps),
                                         Name(Last(derive.comps).base,
                                              Append(Last(derive.comps).exts, "rsml")))]

derive_to_path_buf(derive, parent_path) == normalize(join(parent_path, WithRsml(derive)))

\* parse_rsml_derives of a file that can be read; a file that cannot has none to walk
DerivesOf(src, p) == IF p \in DOMAIN src THEN SetToSeq(src[p]) ELSE <<>>

\* the result of a walk: the set of derives already parsed and the world
RECURSIVE parse_macros_from_derives(_, _, _, _, _, _)
RECURSIVE ParseDerivesLoop(_, _, _, _, _, _)
RECURSIVE ParseDerive(_, _, _, _, _, _, _)
RECURSIVE ParsedDerive(_, _, _, _, _, _)

\* already_parsed_derives.insert(derive_path), after the nested walk returned
ParsedDerive(r, derive_path, rest, path, src, depth) ==
    ParseDerivesLoop(rest, path, r.already \cup {derive_path}, r.w, src, depth)

ParseDerive(derive_path, rest, path, already, w, src, depth) ==
    IF derive_path \in already
    THEN ParseDerivesLoop(rest, path, already, w, src, depth)
    ELSE ParsedDerive(parse_macros_from_derives(derive_path, path, already, w, src, depth + 1),
                      derive_path, rest, path, src, depth)

\* for derive in derives { ... }: the derives are resolved against path, the compiled file
ParseDerivesLoop(derives, path, already, w, src, depth) ==
    IF derives = <<>> \/ w.status # "ok" THEN [already |-> already, w |-> w]
    ELSE ParseDerive(derive_to_path_buf(Head(derives), path), Tail(derives),
                     path, already, w, src, depth)

\* a walk that ends without recording the edge
InsertDependency_none(r, derive_path, path) == r

\* watcher.dependencies.insert(derive_path, path), the last statement of the walk
InsertDependency(r, derive_path, path) ==
    IF r.w.status # "ok" THEN r
    ELSE [already |-> r.already, w |-> [r.w EXCEPT !.deps = insert(@, derive_path, path)]]

parse_macros_from_derives(derive_path, path, already, w, src, depth) ==
    IF depth > StackLimit THEN [already |-> already, w |-> Failed(w, "overflow")]
    ELSE InsertDependency(ParseDerivesLoop(DerivesOf(src, derive_path), path, already, w,
                                           src, depth),
                          derive_path, path)

\* a compile that walks no derive of the compiled file
DerivesChildren_skip(derives, path, already, w, src, indir, depth) == w

\* the loop of rsml_to_model_json over the derives of the compiled file
RECURSIVE DerivesChildren(_, _, _, _, _, _, _)
RECURSIVE StyleDerive(_, _, _, _, _, _, _)

\* Child::StyleDerive: derive_path.strip_prefix(&watcher.input_dir).unwrap()
StyleDerive(r, derive_path, rest, path, src, indir, depth) ==
    IF r.w.status # "ok" THEN r.w
    ELSE IF strip_prefix(derive_path, indir) = None THEN Failed(r.w, "panic")
    ELSE DerivesChildren(rest, path, r.already, r.w, src, indir, depth)

DeriveChild(derive_path, rest, path, already, w, src, indir, depth) ==
    StyleDerive(parse_macros_from_derives(derive_path, path, already, w, src, depth + 1),
                derive_path, rest, path, src, indir, depth)

DerivesChildren(derives, path, already, w, src, indir, depth) ==
    IF derives = <<>> \/ w.status # "ok" THEN w
    ELSE DeriveChild(derive_to_path_buf(Head(derives), path), Tail(derives), path,
                     already, w, src, indir, depth)

\* the StyleSheet: its id is path.normalize().strip_prefix(&watcher.input_dir).unwrap()
StyleSheet(w, id) ==
    IF w.status # "ok" THEN [w |-> w, id |-> None]
    ELSE IF id = None THEN [w |-> Failed(w, "panic"), id |-> None]
    ELSE [w |-> w, id |-> id]

\* the world after the call, and the id field of the text it returns
rsml_to_model_json(path, w, src, indir, depth) ==
    IF depth > StackLimit THEN [w |-> Failed(w, "overflow"), id |-> None]
    ELSE IF path \notin DOMAIN src THEN [w |-> Failed(w, "panic"), id |-> None]
    ELSE StyleSheet(DerivesChildren(SetToSeq(src[path]), path, {}, w, src, indir, depth),
                    strip_prefix(normalize(path), indir))

(***************************************************************************)
(* The watcher context (main.rs).                                          *)
(***************************************************************************)
Put(f, k, v) == [x \in (DOMAIN f) \cup {k} |-> IF x = k THEN v ELSE f[x]]

ModelJson == <<"model", "json">>

DepsTrue(referent_path) == [propagate |-> TRUE, referent |-> referent_path]

DepsFalse == [propagate |-> FALSE, referent |-> None]

\* model_json_is_rsml: the file is read, its id parsed, and the id ends with ".rsml"
model_json_is_rsml(path, arts) ==
    /\ path \in DOMAIN arts
    /\ extension_is(arts[path].id, "rsml")

\* output_dir.join(path.strip_prefix(&input_dir).unwrap()) with extension "model.json"
OutputPath(path, indir, outdir) ==
    set_extension(join(outdir, Unwrap(strip_prefix(path, indir))), ModelJson)

\* fs::write(output_path, model_json) that returns Ok
Written(w, output_path, id, path) ==
    [Logged(w, "write", output_path, id) EXCEPT
        !.arts = Put(@, output_path, [id |-> id]),
        !.fresh = @ \cup {path}]

\* fs::write(output_path, model_json).unwrap()
fs_write(w, output_path, id, path) ==
    IF output_path \in w.ro
    THEN Failed(Logged(w, "write_failed", output_path, id), "panic")
    ELSE Written(w, output_path, id, path)

RECURSIVE create_file(_, _, _, _, _, _, _)
RECURSIVE CreateDependants(_, _, _, _, _, _, _, _)
RECURSIVE Propagate(_, _, _, _, _, _, _)
RECURSIVE WriteArtifact(_, _, _, _, _, _, _, _)

\* for dependant in dependants.clone(), skipping the referent
CreateDependants(dependants, path, referent_path, w, src, indir, outdir, depth) ==
    IF dependants = <<>> \/ w.status # "ok" THEN w
    ELSE IF referent_path = Some(Head(dependants))
         THEN CreateDependants(Tail(dependants), path, referent_path, w, src, indir, outdir, depth)
         ELSE CreateDependants(Tail(dependants), path, referent_path,
                               create_file(Head(dependants), DepsTrue(Some(path)), w, src,
                                           indir, outdir, depth + 1),
                               src, indir, outdir, depth)

\* match create_dependencies: the files self.dependencies.get_by_right(path) returns
Propagate(w, path, create_dependencies, src, indir, outdir, depth) ==
    IF ~create_dependencies.propagate \/ get_by_right(w.deps, path) = None THEN w
    ELSE CreateDependants(SetToSeq(Unwrap(get_by_right(w.deps, path))), path,
                          create_dependencies.referent, w, src, indir, outdir, depth)

WriteArtifact(r, path, create_dependencies, src, indir, outdir, depth, output_path) ==
    IF r.w.status # "ok" THEN r.w
    ELSE Propagate(fs_write(r.w, output_path, Unwrap(r.id), path), path,
                   create_dependencies, src, indir, outdir, depth)

create_file(path, create_dependencies, w, src, indir, outdir, depth) ==
    IF depth > StackLimit THEN Failed(w, "overflow")
    ELSE IF strip_prefix(path, indir) = None THEN Failed(w, "panic")
    ELSE WriteArtifact(rsml_to_model_json(path, w, src, indir, depth + 1), path,
                       create_dependencies, src, indir, outdir, depth,
                       OutputPath(path, indir, outdir))

\* for path in to_update { self.create_file(path, True(None)) }
RECURSIVE CreateAll(_, _, _, _, _)
CreateAll(paths, w, src, indir, outdir) ==
    IF paths = <<>> \/ w.status # "ok" THEN w
    ELSE CreateAll(Tail(paths),
                   create_file(Head(paths), DepsTrue(None), w, src, indir, outdir, 3),
                   src, indir, outdir)

\* the files we need to update: the dependants of every key the diff yields
ToUpdate(changed, dependants) ==
    UNION {Members(get_by_left(dependants, changed[i])) : i \in 1..Len(changed)}

UpdateAliases(luaurc_path, new_aliases, old, w, src, indir, outdir) ==
    CreateAll(SetToSeq(ToUpdate(diff(new_aliases, old.aliases), old.dependants)),
              [w EXCEPT !.lua = Some([path |-> luaurc_path, aliases |-> new_aliases,
                                      dependants |-> old.dependants])],
              src, indir, outdir)

luaurc_update(luaurc_path, w, src, lfile, indir, outdir) ==
    IF lfile = None \/ w.lua = None THEN w
    ELSE UpdateAliases(luaurc_path, Aliases_new(Unwrap(lfile)), Unwrap(w.lua), w,
                       src, indir, outdir)

RECURSIVE RemoveAllByLeft(_, _)
RemoveAllByLeft(m, keys) ==
    IF keys = <<>> THEN m ELSE RemoveAllByLeft(remove_by_left(m, Head(keys)), Tail(keys))

RECURSIVE RemoveAllByRight(_, _)
RemoveAllByRight(m, keys) ==
    IF keys = <<>> THEN m ELSE RemoveAllByRight(remove_by_right(m, Head(keys)), Tail(keys))

KeysUnder(keys, deleted_path) == SetToSeq({k \in keys : starts_with(k, deleted_path)})

\* the second half of prune_dependencies: the right keys of the alias dependants
PruneDependants(deleted_path, w) ==
    IF w.lua = None THEN w
    ELSE [w EXCEPT !.lua = Some([Unwrap(w.lua) EXCEPT !.dependants =
              RemoveAllByRight(@, KeysUnder(DOMAIN @.right_to_left, deleted_path))])]

prune_dependencies(deleted_path, w) ==
    PruneDependants(deleted_path,
                    [w EXCEPT !.deps = RemoveAllByLeft(@, KeysUnder(DOMAIN @.left_to_right,
                                                                    deleted_path))])

\* what the disk holds at a path
is_file(path, w, src, lfile) ==
    \/ path \in DOMAIN src
    \/ path \in DOMAIN w.arts
    \/ (path = LuaurcPath /\ lfile # None)

is_dir(path) == path \in Dirs

\* Vfs::read_dir: Err (None) unless the path is a directory; the entries are
\* the files the directory holds when it is listed, in the order the listing
\* returns them (the modelled directories hold no directories)
read_dir(dir, w, src, order) ==
    IF ~is_dir(dir) THEN None
    ELSE Some(SelectSeq(order, LAMBDA f : parent(f) = dir /\ (f \in DOMAIN src \/ f \in DOMAIN w.arts)))

remove_file(w, path) ==
    IF path \in DOMAIN w.arts
    THEN [Logged(w, "remove", path, w.arts[path].id) EXCEPT !.arts = Without(@, {path})]
    ELSE w

\* the body of the loop of recursive_scan_create_and_clean for one entry
VisitCreateAndClean(path, w, src, lfile, indir, outdir) ==
    IF ~is_file(path, w, src, lfile) THEN w
    ELSE IF extension_is(path, "rsml")
         THEN create_file(normalize(path), DepsFalse, w, src, indir, outdir, 3)
    ELSE IF ends_with_model_json(path) /\ model_json_is_rsml(path, w.arts)
         THEN remove_file(w, path)
    ELSE w

RECURSIVE ScanCreateAndClean(_, _, _, _, _, _)
ScanCreateAndClean(entries, w, src, lfile, indir, outdir) ==
    IF entries = <<>> \/ w.status # "ok" THEN w
    ELSE ScanCreateAndClean(Tail(entries),
                            VisitCreateAndClean(Head(entries), w, src, lfile, indir, outdir),
                            src, lfile, indir, outdir)

recursive_scan_create_and_clean(dir, w, src, lfile, indir, outdir) ==
    IF dir = None THEN w ELSE ScanCreateAndClean(Unwrap(dir), w, src, lfile, indir, outdir)

\* the body of the loop of recursive_scan_create for one entry
VisitCreate(path, w, src, lfile, indir, outdir) ==
    IF is_file(path, w, src, lfile) /\ extension_is(path, "rsml")
    THEN create_file(normalize(path), DepsFalse, w, src, indir, outdir, 3)
    ELSE w

RECURSIVE ScanCreate(_, _, _, _, _, _)
ScanCreate(entries, w, src, lfile, indir, outdir) ==
    IF entries = <<>> \/ w.status # "ok" THEN w
    ELSE ScanCreate(Tail(entries), VisitCreate(Head(entries), w, src, lfile, indir, outdir),
                    src, lfile, indir, outdir)

recursive_scan_create(dir, w, src, lfile, indir, outdir) ==
    IF dir = None THEN w ELSE ScanCreate(Unwrap(dir), w, src, lfile, indir, outdir)

\* the body of the loop of recursive_scan_clean for one entry
VisitClean(path, w, src, lfile) ==
    IF /\ is_file(path, w, src, lfile)
       /\ ends_with_model_json(path)
       /\ model_json_is_rsml(path, w.arts)
    THEN remove_file(w, path)
    ELSE w

RECURSIVE ScanClean(_, _, _, _)
ScanClean(entries, w, src, lfile) ==
    IF entries = <<>> THEN w
    ELSE ScanClean(Tail(entries), VisitClean(Head(entries), w, src, lfile), src, lfile)

recursive_scan_clean(dir, w, src, lfile) ==
    IF dir = None THEN w ELSE ScanClean(Unwrap(dir), w, src, lfile)

\* the else branch of recursive_scan: the input directory is listed after the clean pass
CreateAfterClean(w, offset_input_dir, src, lfile, indir, outdir, order) ==
    recursive_scan_create(read_dir(offset_input_dir, w, src, order), w, src, lfile, indir, outdir)

\* a scan that compiles the input directory before it cleans the output directory
recursive_scan_create_first(offset_dir, w, src, lfile, indir, outdir, order) ==
    IF indir = outdir
    THEN recursive_scan_create_and_clean(
             read_dir(normalize(join(indir, offset_dir)), w, src, order),
             w, src, lfile, indir, outdir)
    ELSE recursive_scan_clean(
             read_dir(normalize(join(outdir, offset_dir)),
                      CreateAfterClean(w, normalize(join(indir, offset_dir)),
                                       src, lfile, indir, outdir, order),
                      src, order),
             CreateAfterClean(w, normalize(join(indir, offset_dir)),
                              src, lfile, indir, outdir, order),
             src, lfile)

recursive_scan(offset_dir, w, src, lfile, indir, outdir, order) ==
    IF indir = outdir
    THEN recursive_scan_create_and_clean(
             read_dir(normalize(join(indir, offset_dir)), w, src, order),
             w, src, lfile, indir, outdir)
    ELSE CreateAfterClean(
             recursive_scan_clean(read_dir(normalize(join(outdir, offset_dir)), w, src, order),
                                  w, src, lfile),
             normalize(join(indir, offset_dir)), src, lfile, indir, outdir, order)

initialize(w, src, lfile, indir, outdir, order) ==
    recursive_scan(EmptyPath, w, src, lfile, indir, outdir, order)

EventKinds == {"Create", "Write", "Remove"}

\* luaurc.dependants.remove_by_right(path), if a configuration is bound
RemoveDependant(w, path) ==
    IF w.lua = None THEN w
    ELSE [w EXCEPT !.lua = Some([Unwrap(w.lua) EXCEPT !.dependants = remove_by_right(@, path)])]

\* path.join(format!("../{}.model.json", path_stem_str)).normalize()
StemModelJson(path) ==
    normalize(join(path, Rel(<<ParentDir,
                               Name(file_stem(path).base, file_stem(path).exts \o ModelJson)>>)))

\* the branch of handle_vfs_event for a path with the rsml extension that no longer exists
DeleteSingleFile(path, w) ==
    remove_file(RemoveDependant([remove_file(w, path) EXCEPT !.deps = remove_by_left(@, path)],
                                path),
                StemModelJson(path))

\* a handler that believes a Remove event: the path is not examined and is
\* taken to be gone
HandlePath_trust_kind(kind, path, w, src, lfile, indir, outdir, order) ==
    IF kind \notin EventKinds THEN [w |-> w, action |-> "none"]
    ELSE IF ends_with_model_json(path) THEN [w |-> w, action |-> "ignored"]
    ELSE IF kind # "Remove" /\ is_file(path, w, src, lfile)
         THEN IF extension_is(path, "rsml")
              THEN [w |-> create_file(path, DepsTrue(None),
                                      [w EXCEPT !.deps = remove_by_left(@, path)],
                                      src, indir, outdir, 2),
                    action |-> "compile"]
              ELSE IF w.lua # None /\ path = Unwrap(w.lua).path
                   THEN [w |-> luaurc_update(Unwrap(w.lua).path, w, src, lfile, indir, outdir),
                         action |-> "luaurc_update"]
                   ELSE [w |-> w, action |-> "none"]
    ELSE IF kind # "Remove" /\ is_dir(path)
         THEN [w |-> recursive_scan(path, w, src, lfile, indir, outdir, order),
               action |-> "rescan"]
    ELSE IF extension_is(path, "rsml")
         THEN [w |-> DeleteSingleFile(path, w), action |-> "delete"]
         ELSE [w |-> prune_dependencies(path, w), action |-> "prune"]

\* handle_vfs_event after path.normalize(): the world after it, and the branch taken
HandlePath(kind, path, w, src, lfile, indir, outdir, order) ==
    IF kind \notin EventKinds THEN [w |-> w, action |-> "none"]
    ELSE IF ends_with_model_json(path) THEN [w |-> w, action |-> "ignored"]
    ELSE IF is_file(path, w, src, lfile)
         THEN IF extension_is(path, "rsml")
              THEN [w |-> create_file(path, DepsTrue(None),
                                      [w EXCEPT !.deps = remove_by_left(@, path)],
                                      src, indir, outdir, 2),
                    action |-> "compile"]
              ELSE IF w.lua # None /\ path = Unwrap(w.lua).path
                   THEN [w |-> luaurc_update(Unwrap(w.lua).path, w, src, lfile, indir, outdir),
                         action |-> "luaurc_update"]
                   ELSE [w |-> w, action |-> "none"]
    ELSE IF is_dir(path)
         THEN [w |-> recursive_scan(path, w, src, lfile, indir, outdir, order),
               action |-> "rescan"]
    ELSE IF extension_is(path, "rsml")
         THEN [w |-> DeleteSingleFile(path, w), action |-> "delete"]
         ELSE [w |-> prune_dependencies(path, w), action |-> "prune"]

handle_vfs_event(kind, event_path, w, src, lfile, indir, outdir, order) ==
    HandlePath(kind, normalize(event_path), w, src, lfile, indir, outdir, order)

(***************************************************************************)
(* The process: construction (Init), the startup scan, and the watch loop  *)
(* handling one event at a time, while the user changes the files.         *)
(***************************************************************************)
NoLast == [op |-> "none", path |-> EmptyPath, action |-> "none", log |-> <<>>,
           status |-> "ok", before |-> None, at |-> 0]

World == [deps |-> dependencies, lua |-> luaurc, arts |-> artifacts, fresh |-> fresh,
          log |-> <<>>, status |-> "ok", ro |-> readonly]

\* what a handler found when it was called
Before == [deps |-> dependencies, lua |-> luaurc, arts |-> artifacts, fresh |-> fresh]

\* the process goes on after a handler that returned, and is dead otherwise
Commit(r, op, path) ==
    /\ dependencies' = r.w.deps
    /\ luaurc' = r.w.lua
    /\ artifacts' = r.w.arts
    /\ fresh' = r.w.fresh
    /\ pc' = IF r.w.status = "ok" THEN "watching"
             ELSE IF r.w.status = "panic" THEN "panicked" ELSE "overflow"
    /\ last' = [op |-> op, path |-> path, action |-> r.action, log |-> r.w.log,
                status |-> r.w.status, before |-> Some(Before), at |-> elapsed']

ArtifactPath(outdir, stem) == join(outdir, Rel(<<Name(stem, ModelJson)>>))

RsmlId(stem) == Rel(<<Name(stem, <<"rsml">>)>>)

\* the artifacts an earlier run left in the output directory, and a file of
\* another tool with the artifact suffix
EarlierArtifacts(outdir) ==
    {[p \in {ArtifactPath(outdir, s) : s \in built} |-> [id |-> RsmlId(Last(p.comps).base)]] :
        built \in SUBSET Stems}
    \cup {[p \in {ArtifactPath(outdir, "b")} |-> [id |-> Rel(<<Name("b", <<"luau">>)>>)]]}

SourceTexts(specs) == UNION {[fs -> SUBSET specs] : fs \in SUBSET SourcePaths}

\* the fields every start shares
InitContext ==
    /\ input_dir = InDir
    /\ elapsed = 0
    /\ dependencies = MultiBiMap_new
    /\ last = NoLast
    /\ fresh = {}
    /\ nedits = 0
    /\ nevents = 0
    /\ vfs_closed = FALSE
    /\ shutdown = FALSE
    /\ readonly = {}
    /\ tableA = EmptyTable
    /\ tableB = EmptyTable
    /\ diffOut = <<>>

\* WatcherContext::new, with no configuration file found
Init ==
    /\ InitContext
    /\ pc = "new"
    /\ output_dir \in {InDir, OutDir}
    /\ luaurc_file = None
    /\ luaurc = None
    /\ sources \in SourceTexts(DeriveSpecs)
    /\ artifacts \in EarlierArtifacts(output_dir)

FilesOnDisk == (DOMAIN sources) \cup (DOMAIN artifacts)

\* build(): context.initialize(), then Watcher::start
Initialize(order) ==
    /\ pc = "new"
    /\ UNCHANGED <<input_dir, output_dir, sources, luaurc_file, nedits, nevents,
                   tableA, tableB, vfs_closed, shutdown, readonly, diffOut, elapsed>>
    /\ Commit([w |-> initialize(World, sources, luaurc_file, input_dir, output_dir, order),
               action |-> "rescan"],
              "initialize", EmptyPath)

EventPaths ==
    SourcePaths \cup {InDir, LuaurcPath, ArtifactPath(InDir, "a"), GoneDir}

\* Duration::from_millis(200), the window after Watcher::start in which events are dropped
SettleWindow == 200

\* the test with the end of the window counted as past it
Settled_inclusive(ms) == ms >= SettleWindow

\* start_time.elapsed() > Duration::from_millis(200)
Settled(ms) == ms > SettleWindow

\* the readings of the clock the model tells apart: the start, the end of the
\* window, and past it
Times == {0, SettleWindow, SettleWindow + 1}

\* the context moved into the loop before build() returned it
Started_early == pc \in {"new", "watching"}

\* Watcher::start(context): the loop owns the context build() returned
Started == pc = "watching"

\* start_time.elapsed(), read when an event is received: no earlier than the last reading
Elapsed(t) == t \in Times /\ t >= elapsed /\ elapsed' = t

\* the watch loop receives an event inside the window: nothing is called
DiscardVfsEvent(kind, path) ==
    /\ Started
    /\ ~vfs_closed
    /\ nevents < MaxEvents
    /\ \E t \in Times : Elapsed(t) /\ ~Settled(t)
    /\ nevents' = nevents + 1
    /\ last' = [op |-> "discarded", path |-> normalize(path), action |-> "none", log |-> <<>>,
                status |-> "ok", before |-> Some(Before), at |-> elapsed']
    /\ UNCHANGED <<pc, input_dir, output_dir, dependencies, luaurc, sources, artifacts,
                   luaurc_file, fresh, nedits, tableA, tableB, vfs_closed, shutdown, readonly, diffOut>>

\* the arm recv(vfs_receiver) -> Ok(event) past the window: the handler runs to its end
ReceiveAndHandle(kind, path, order) ==
    /\ Started
    /\ ~vfs_closed
    /\ \E t \in Times : Elapsed(t) /\ Settled(t)
    /\ Commit(handle_vfs_event(kind, path, World, sources, luaurc_file,
                               input_dir, output_dir, order),
              "event", normalize(path))
    /\ UNCHANGED <<input_dir, output_dir, sources, luaurc_file, nedits, tableA, tableB,
                   vfs_closed, shutdown, readonly, diffOut>>

\* the watch loop receives an event past the window and handles it
HandleVfsEvent(kind, path, order) ==
    /\ nevents < MaxEvents
    /\ nevents' = nevents + 1
    /\ ReceiveAndHandle(kind, path, order)

Edited ==
    /\ nedits < MaxEdits
    /\ nedits' = nedits + 1
    /\ pc = "watching"
    /\ last' = NoLast
    /\ UNCHANGED <<pc, input_dir, output_dir, dependencies, luaurc, artifacts, nevents,
                   tableA, tableB, vfs_closed, shutdown, readonly, diffOut, elapsed>>

\* the user writes a source file
WriteSource(f, text) ==
    /\ Edited
    /\ sources' = Put(sources, f, text)
    /\ fresh' = fresh \ {f}
    /\ UNCHANGED luaurc_file

\* the user deletes a source file
RemoveSource(f) ==
    /\ Edited
    /\ f \in DOMAIN sources
    /\ sources' = Without(sources, {f})
    /\ fresh' = fresh \ {f}
    /\ UNCHANGED luaurc_file

ScanOrders(path) == IF is_dir(normalize(path)) THEN Orders(FilesOnDisk) ELSE {<<>>}

Next ==
    \/ \E order \in Orders(FilesOnDisk) : Initialize(order)
    \/ \E kind \in EventKinds, path \in EventPaths :
          \E order \in ScanOrders(path) : HandleVfsEvent(kind, path, order)
    \/ \E kind \in EventKinds, path \in EventPaths : DiscardVfsEvent(kind, path)
    \/ \E f \in SourcePaths, text \in SUBSET DeriveSpecs : WriteSource(f, text)
    \/ \E f \in SourcePaths : RemoveSource(f)

Spec == Init /\ [][Next]_vars

(***************************************************************************)
(* The MultiBiMap on its own: any sequence of insert, remove_by_left and   *)
(* remove_by_right over three paths, on the map the context holds, and the *)
(* event of a directory that is gone, which prunes the map.                *)
(***************************************************************************)
MapPaths == SourcePaths \cup {join(GoneDir, Rel(<<Name("c", <<"rsml">>)>>))}

InitMap ==
    /\ InitContext
    /\ pc = "map"
    /\ output_dir = OutDir
    /\ luaurc_file = None
    /\ luaurc = None
    /\ sources = [f \in {} |-> {}]
    /\ artifacts = [f \in {} |-> {}]

MapOp(op, left, right, m) ==
    /\ pc = "map"
    /\ dependencies' = m
    /\ last' = [op |-> op, left |-> left, right |-> right, before |-> Some(Before)]
    /\ UNCHANGED <<pc, input_dir, output_dir, luaurc, sources, artifacts, luaurc_file,
                   fresh, nedits, nevents, tableA, tableB, vfs_closed, shutdown, readonly, diffOut, elapsed>>

Insert(left, right) == MapOp("insert", left, right, insert(dependencies, left, right))

RemoveByLeft(left) == MapOp("remove_by_left", left, left, remove_by_left(dependencies, left))

RemoveByRight(right) ==
    MapOp("remove_by_right", right, right, remove_by_right(dependencies, right))

\* the event of a path that is neither a file nor a directory and has no
\* rsml extension: handle_vfs_event ends in prune_dependencies(&path)
Prune(deleted_path) ==
    MapOp("prune", deleted_path, deleted_path,
          handle_vfs_event("Remove", deleted_path, World, sources, luaurc_file,
                           input_dir, output_dir, <<>>).w.deps)

NextMap ==
    \/ Prune(GoneDir)
    \/ \E left \in MapPaths, right \in MapPaths : Insert(left, right)
    \/ \E left \in MapPaths : RemoveByLeft(left)
    \/ \E right \in MapPaths : RemoveByRight(right)

SpecMap == InitMap /\ [][NextMap]_vars

(***************************************************************************)
(* Aliases::diff on its own: two tables over the first MaxKeys alias       *)
(* names, and the sequence the iterator yields for them.                   *)
(***************************************************************************)
DiffKeys == {AliasKeys[i] : i \in 1..MaxKeys}

InitDiff ==
    /\ pc = "diff"
    /\ input_dir = InDir
    /\ output_dir = OutDir
    /\ dependencies = MultiBiMap_new
    /\ luaurc_file = None
    /\ luaurc = None
    /\ sources = [f \in {} |-> {}]
    /\ artifacts = [f \in {} |-> {}]
    /\ last = NoLast
    /\ fresh = {}
    /\ nedits = 0
    /\ nevents = 0
    /\ vfs_closed = FALSE
    /\ shutdown = FALSE
    /\ readonly = {}
    /\ tableA \in Tables(DiffKeys)
    /\ tableB \in Tables(DiffKeys)
    /\ elapsed = 0
    /\ diffOut = <<>>

\* new_aliases.diff(&luaurc.aliases), run to its end
RunDiff ==
    /\ pc = "diff"
    /\ pc' = "diffed"
    /\ diffOut' = diff(tableA, tableB)
    /\ UNCHANGED <<input_dir, output_dir, dependencies, luaurc, sources, artifacts,
                   luaurc_file, last, fresh, nedits, nevents, tableA, tableB, vfs_closed, shutdown, readonly, elapsed>>

NextDiff == RunDiff

SpecDiff == InitDiff /\ [][NextDiff]_vars

(***************************************************************************)
(* The process started with a configuration file bound: the sources may    *)
(* name the alias "@ui" in a derive, and the user rewrites or deletes the  *)
(* configuration file while the process runs.                              *)
(***************************************************************************)
LuaurcKeys == {"@lib", "@ui"}

\* the derive specifiers of these sources: "../b.rsml" and "@ui/b"
AliasDerives == {Rel(<<ParentDir, Name("b", <<"rsml">>)>>), AliasDerive}

LuaurcTexts == {Garbage} \cup {Parsable(t) : t \in Tables(LuaurcKeys)}

\* read_to_string.map(Luaurc::new).unwrap_or_default()
BoundLuaurc(lfile) ==
    IF lfile = None THEN [aliases |-> EmptyTable, dependants |-> MultiBiMap_new]
    ELSE Luaurc_new(Unwrap(lfile))

\* WatcherContext::new, with the configuration file path resolved
InitLuaurc ==
    /\ InitContext
    /\ pc = "new"
    /\ output_dir = OutDir
    /\ luaurc_file \in {None, Some(Garbage)} \cup {Some(Parsable(t)) : t \in Tables({"@ui"})}
    /\ luaurc = Some([path |-> LuaurcPath] @@ BoundLuaurc(luaurc_file))
    /\ sources \in {src \in SourceTexts(AliasDerives) :
                        RsmlFile("b") \in DOMAIN src => src[RsmlFile("b")] = {}}
    /\ artifacts = [f \in {} |-> {}]

\* the user rewrites the configuration file
WriteLuaurc(contents) ==
    /\ Edited
    /\ luaurc_file' = Some(contents)
    /\ UNCHANGED <<sources, fresh>>

\* the user deletes the configuration file
RemoveLuaurc ==
    /\ Edited
    /\ luaurc_file # None
    /\ luaurc_file' = None
    /\ UNCHANGED <<sources, fresh>>

NextLuaurc ==
    \/ \E order \in Orders(FilesOnDisk) : Initialize(order)
    \/ \E kind \in EventKinds, path \in EventPaths :
          \E order \in ScanOrders(path) : HandleVfsEvent(kind, path, order)
    \/ \E kind \in EventKinds, path \in EventPaths : DiscardVfsEvent(kind, path)
    \/ \E f \in SourcePaths, text \in SUBSET AliasDerives : WriteSource(f, text)
    \/ \E f \in SourcePaths : RemoveSource(f)
    \/ \E contents \in LuaurcTexts : WriteLuaurc(contents)
    \/ RemoveLuaurc

SpecLuaurc == InitLuaurc /\ [][NextLuaurc]_vars

(***************************************************************************)
(* The two channels of the watch loop: the VFS event channel, which may    *)
(* disconnect, and the shutdown channel; and an output path that cannot be *)
(* written.                                                                *)
(***************************************************************************)
InitLoop ==
    /\ InitContext
    /\ pc = "new"
    /\ output_dir = OutDir
    /\ luaurc_file = None
    /\ luaurc = None
    /\ sources \in SourceTexts(DeriveSpecs)
    /\ artifacts = [f \in {} |-> {}]

\* the output path of a source file becomes unwritable
ProtectArtifact(output_path) ==
    /\ nedits < MaxEdits
    /\ nedits' = nedits + 1
    /\ pc = "watching"
    /\ output_path \notin readonly
    /\ readonly' = readonly \cup {output_path}
    /\ last' = NoLast
    /\ UNCHANGED <<pc, input_dir, output_dir, dependencies, luaurc, sources, artifacts,
                   luaurc_file, fresh, nevents, tableA, tableB, diffOut, elapsed,
                   vfs_closed, shutdown>>

\* every sender of the VFS event channel is gone and the channel is empty
CloseVfs ==
    /\ Started
    /\ ~vfs_closed
    /\ vfs_closed' = TRUE
    /\ UNCHANGED <<pc, input_dir, output_dir, dependencies, luaurc, sources, artifacts,
                   luaurc_file, last, fresh, nedits, nevents, tableA, tableB, diffOut,
                   elapsed, shutdown, readonly>>

\* the arm recv(vfs_receiver) -> Err(err): println!, and the loop goes round
RecvError ==
    /\ Started
    /\ vfs_closed
    /\ last' = [op |-> "recv_error", path |-> EmptyPath, action |-> "none", log |-> <<>>,
                status |-> "ok", before |-> Some(Before), at |-> elapsed]
    /\ UNCHANGED <<pc, input_dir, output_dir, dependencies, luaurc, sources, artifacts,
                   luaurc_file, fresh, nedits, nevents, tableA, tableB, diffOut,
                   elapsed, vfs_closed, shutdown, readonly>>

\* a message is sent on the shutdown channel, or its sender is dropped
SignalShutdown ==
    /\ Started
    /\ ~shutdown
    /\ shutdown' = TRUE
    /\ UNCHANGED <<pc, input_dir, output_dir, dependencies, luaurc, sources, artifacts,
                   luaurc_file, last, fresh, nedits, nevents, tableA, tableB, diffOut,
                   elapsed, vfs_closed, readonly>>

\* a loop that takes the shutdown message and goes round again
Stop_dropped ==
    /\ Started
    /\ shutdown
    /\ shutdown' = FALSE
    /\ UNCHANGED <<pc, input_dir, output_dir, dependencies, luaurc, sources, artifacts,
                   luaurc_file, last, fresh, nedits, nevents, tableA, tableB, diffOut,
                   elapsed, vfs_closed, readonly>>

\* the arm recv(shutdown_receiver): return Ok(())
Stop ==
    /\ Started
    /\ shutdown
    /\ pc' = "stopped"
    /\ UNCHANGED <<input_dir, output_dir, dependencies, luaurc, sources, artifacts,
                   luaurc_file, last, fresh, nedits, nevents, tableA, tableB, diffOut,
                   elapsed, vfs_closed, shutdown, readonly>>

LoopPaths == SourcePaths \cup {InDir}

NextLoop ==
    \/ pc = "new" /\ \E order \in Orders(FilesOnDisk) : Initialize(order)
    \/ \E kind \in EventKinds, path \in LoopPaths :
          \E order \in ScanOrders(path) : HandleVfsEvent(kind, path, order)
    \/ \E kind \in EventKinds, path \in LoopPaths : DiscardVfsEvent(kind, path)
    \/ \E f \in SourcePaths, text \in SUBSET DeriveSpecs : WriteSource(f, text)
    \/ \E s \in Stems : ProtectArtifact(ArtifactPath(OutDir, s))
    \/ CloseVfs
    \/ RecvError
    \/ SignalShutdown
    \/ Stop

SpecLoop == InitLoop /\ [][NextLoop]_vars

\* an event received and handled, with no end to the events that arrive
HandleAgain(kind, path, order) ==
    /\ nevents' = nevents
    /\ ReceiveAndHandle(kind, path, order)

NextShutdown ==
    \/ pc = "new" /\ \E order \in Orders(FilesOnDisk) : Initialize(order)
    \/ \E kind \in EventKinds, path \in LoopPaths :
          \E order \in ScanOrders(path) : HandleAgain(kind, path, order)
    \/ \E f \in SourcePaths, text \in SUBSET DeriveSpecs : WriteSource(f, text)
    \/ SignalShutdown
    \/ Stop

\* select! takes one of the ready arms at random: the shutdown arm, ready from
\* the signal on, is taken in the end
SpecShutdown == InitLoop /\ [][NextShutdown]_vars /\ WF_vars(Stop)

(***************************************************************************)
(* Three source files that derive one another: the startup scan, the user  *)
(* rewriting the files, and the event of one of them.                      *)
(***************************************************************************)
MaxRewrites == 2

CycleStems == {"a", "b", "c"}

CyclePaths == {RsmlFile(s) : s \in CycleStems}

\* the derive specifier "../s"
CycleDerive(s) == Rel(<<ParentDir, Name(s, <<>>)>>)

\* a text with no derive, or with one derive of another file
CycleTexts(f) == {{}} \cup {{CycleDerive(s)} : s \in {t \in CycleStems : RsmlFile(t) # f}}

InitCycle ==
    /\ InitContext
    /\ pc = "new"
    /\ output_dir = OutDir
    /\ luaurc_file = None
    /\ luaurc = None
    /\ sources \in {src \in [CyclePaths -> SUBSET {CycleDerive(s) : s \in CycleStems}] :
                        \A f \in CyclePaths : src[f] \in CycleTexts(f)}
    /\ artifacts = [f \in {} |-> {}]

\* the user rewrites a source file
Rewrite(f, text) ==
    /\ nedits < MaxRewrites
    /\ nedits' = nedits + 1
    /\ pc = "watching"
    /\ last' = NoLast
    /\ sources' = Put(sources, f, text)
    /\ fresh' = fresh \ {f}
    /\ UNCHANGED <<pc, input_dir, output_dir, dependencies, luaurc, artifacts, nevents,
                   tableA, tableB, vfs_closed, shutdown, readonly, diffOut, elapsed, luaurc_file>>

NextCycle ==
    \/ pc = "new" /\ \E order \in Orders(FilesOnDisk) : Initialize(order)
    \/ \E kind \in EventKinds, path \in CyclePaths : HandleVfsEvent(kind, path, <<>>)
    \/ \E f \in CyclePaths : \E text \in CycleTexts(f) : Rewrite(f, text)

SpecCycle == InitCycle /\ [][NextCycle]_vars

(***************************************************************************)
(* Properties.  The last handler is described by last: the event path, the *)
(* branch taken, the artifact writes and removals in order, how it ended,  *)
(* and the state it was called in.                                         *)
(***************************************************************************)
Returned(action) == last.op = "event" /\ last.action = action /\ last.status = "ok"

Wrote(p) == \E i \in 1..Len(last.log) : last.log[i].act = "write" /\ last.log[i].path = p

Removed(p) == \E i \in 1..Len(last.log) : last.log[i].act = "remove" /\ last.log[i].path = p

ArtifactOf(f) == OutputPath(f, input_dir, output_dir)

\* the text of f holds a derive that names g
Derives(f, g) ==
    /\ f \in DOMAIN sources
    /\ g \in {derive_to_path_buf(d, f) : d \in sources[f]}

\* f reaches g along derive references
DependsOn(f, g) == Derives(f, g) \/ \E h \in SourcePaths : Derives(f, h) /\ Derives(h, g)

\* p is a key or a member of a set of the map
Occurs(m, p) ==
    \/ p \in DOMAIN m.left_to_right
    \/ p \in DOMAIN m.right_to_left
    \/ \E k \in DOMAIN m.left_to_right : p \in m.left_to_right[k]
    \/ \E k \in DOMAIN m.right_to_left : p \in m.right_to_left[k]

\* C1: after any sequence of insert, remove_by_left and remove_by_right the
\* two maps are inverses: r is in get_by_left(l) iff l is in get_by_right(r)
C1_Inverse ==
    \A l \in MapPaths, r \in MapPaths :
        r \in Members(get_by_left(dependencies, l)) <=> l \in Members(get_by_right(dependencies, r))

\* C1 witness: remove_by_right took a right value with two lefts out of a map
\* that keeps other edges
C1_Witness ==
    /\ last.op = "remove_by_right"
    /\ Cardinality(Members(get_by_right(Unwrap(last.before).deps, last.right))) = 2
    /\ DOMAIN dependencies.left_to_right # {}
    /\ DOMAIN dependencies.left_to_right # DOMAIN Unwrap(last.before).deps.left_to_right

\* C2: after any sequence of insert, remove_by_left and remove_by_right no key
\* of left_to_right or right_to_left maps to an empty set
C2_NoEmptySet ==
    /\ \A l \in DOMAIN dependencies.left_to_right : dependencies.left_to_right[l] # {}
    /\ \A r \in DOMAIN dependencies.right_to_left : dependencies.right_to_left[r] # {}

\* C2 witness: remove_by_left took the last member out of the set of a right
\* value, whose key is gone, and out of a set that keeps another member
C2_Witness ==
    /\ last.op = "remove_by_left"
    /\ \E r \in MapPaths :
          /\ get_by_right(Unwrap(last.before).deps, r) = Some({last.left})
          /\ get_by_right(dependencies, r) = None
    /\ \E r \in MapPaths :
          /\ last.left \in Members(get_by_right(Unwrap(last.before).deps, r))
          /\ get_by_right(dependencies, r) # None

\* C3: when dep has been compiled from its present text and that text derives
\* base, a Create/Write event for the existing file base that returns has
\* rewritten the artifact of dep
C3_BaseRecompilesDep ==
    \A base \in SourcePaths, dep \in SourcePaths :
        (/\ Returned("compile")
         /\ last.path = base
         /\ dep \in Unwrap(last.before).fresh
         /\ Derives(dep, base))
        => Wrote(ArtifactOf(dep))

\* C4: a Create/Write event for the existing source file f writes the
\* artifact of f, and besides it only artifacts of files that depend on f
\* through derive references
C4_WritesOnlyDependents ==
    Returned("compile") =>
        /\ Wrote(ArtifactOf(last.path))
        /\ \A i \in 1..Len(last.log) :
              last.log[i].act = "write" =>
                  \E g \in DOMAIN sources :
                      /\ last.log[i].path = ArtifactOf(g)
                      /\ (g = last.path \/ DependsOn(g, last.path))

\* the antecedents a compilation of D from its present text records for D
EdgesOfSource(D) ==
    Members(get_by_right(
        rsml_to_model_json(D, [World EXCEPT !.deps = MultiBiMap_new], sources, input_dir, 2).w.deps,
        D))

\* C5: after handle_vfs_event compiled the existing source file D, the edges
\* with D as the right value are exactly those of D's present source
C5_EdgesOfCurrentSource ==
    Returned("compile") =>
        Members(get_by_right(dependencies, last.path)) = EdgesOfSource(last.path)

\* C6: when a and b derive each other, the handler of a Create/Write event
\* for a returns
C6_CycleTerminates ==
    \A a \in SourcePaths, b \in SourcePaths :
        (/\ a # b
         /\ last.op = "event"
         /\ last.action = "compile"
         /\ last.path = a
         /\ Derives(a, b)
         /\ Derives(b, a))
        => last.status = "ok"

\* C7: after the event for a deleted source path p was handled, p is neither
\* a key nor a member of a set in the Dependency Graph and in Alias Dependants
C7_NoOrphanEdges ==
    Returned("delete") =>
        /\ ~Occurs(dependencies, last.path)
        /\ luaurc # None => ~Occurs(Unwrap(luaurc).dependants, last.path)

\* the keys in one table only, or in both with different values
ChangedKeys(a, b) ==
    {k \in (DOMAIN a) \cup (DOMAIN b) :
        \/ k \notin DOMAIN a
        \/ k \notin DOMAIN b
        \/ a[k] # b[k]}

\* C8: diff(A, B) yields, in ascending order and without duplicates, exactly
\* the keys in one table only or in both with different values; diff(A, A)
\* yields nothing
C8_DiffCorrect ==
    pc = "diffed" =>
        /\ \A i \in 1..Len(diffOut), j \in 1..Len(diffOut) :
              i < j => Rank(diffOut[i]) < Rank(diffOut[j])
        /\ {diffOut[i] : i \in 1..Len(diffOut)} = ChangedKeys(tableA, tableB)
        /\ tableA = tableB => diffOut = <<>>

\* C8 witness: the diff of two tables yielded a key of one table only and a
\* key whose value changed, and left out a key with equal values
C8_Witness ==
    /\ pc = "diffed"
    /\ \E i \in 1..Len(diffOut) : diffOut[i] \in (DOMAIN tableA) \ DOMAIN tableB
    /\ \E i \in 1..Len(diffOut) : diffOut[i] \in (DOMAIN tableA) \cap DOMAIN tableB
    /\ \E k \in (DOMAIN tableA) \cap DOMAIN tableB : tableA[k] = tableB[k]

\* the aliases the derives of f name, when f was compiled from its present text
Consumed(f) ==
    IF f \in Unwrap(last.before).fresh /\ AliasDerive \in sources[f]
    THEN {AliasDerive.comps[1].base}
    ELSE {}

\* C9: the handler of an event for the rewritten configuration file
\* recompiles exactly the files that consumed an alias whose entry changed
C9_AliasInvalidation ==
    Returned("luaurc_update") =>
        \A f \in DOMAIN sources :
            Wrote(ArtifactOf(f)) <=>
                Consumed(f) \cap ChangedKeys(Unwrap(Unwrap(last.before).lua).aliases,
                                             Unwrap(luaurc).aliases) # {}

\* the source file an artifact id names
SourceOf(id) == normalize(join(input_dir, id))

\* the directory a scan cleans
CleanedDir == normalize(join(output_dir, last.path))

\* C10: a scan deletes an artifact if and only if its id has the source
\* extension and the source file the id names no longer exists
C10_ScanDeletesOrphansOnly ==
    (last.action = "rescan" /\ last.status = "ok") =>
        /\ \A i \in 1..Len(last.log) :
              last.log[i].act = "remove" =>
                  /\ extension_is(last.log[i].id, "rsml")
                  /\ SourceOf(last.log[i].id) \notin DOMAIN sources
        /\ \A p \in DOMAIN Unwrap(last.before).arts :
              (/\ parent(p) = CleanedDir
               /\ extension_is(Unwrap(last.before).arts[p].id, "rsml")
               /\ SourceOf(Unwrap(last.before).arts[p].id) \notin DOMAIN sources)
              => Removed(p)

\* C11: an event the watch loop receives within 200 ms of its start is
\* dropped, with no compilation and no change to the Dependency Graph or the
\* alias state; an event received later is handed to handle_vfs_event
C11_SettleWindow ==
    /\ last.op = "discarded" =>
          /\ last.at <= SettleWindow
          /\ last.log = <<>>
          /\ Before = Unwrap(last.before)
    /\ last.op = "event" => last.at > SettleWindow

\* C11 witness: the event for an existing source file that has been edited
\* since its compilation arrived at the very end of the window and was dropped
C11_Witness ==
    /\ last.op = "discarded"
    /\ last.at = SettleWindow
    /\ last.path \in DOMAIN sources
    /\ last.path \notin fresh

\* paths with the artifact suffix: artifacts of either directory
ArtifactEventPaths == {ArtifactPath(d, s) : d \in {InDir, OutDir}, s \in Stems}

\* C12: an event for a path whose file name ends with ".model.json" is
\* ignored: no branch of the handler runs, and the Dependency Graph, the
\* alias table and Alias Dependants stay as they were
C12_ArtifactEventIgnored ==
    /\ \A kind \in EventKinds, p \in ArtifactEventPaths :
          handle_vfs_event(kind, p, World, sources, luaurc_file, input_dir, output_dir, <<>>)
              = [w |-> World, action |-> "ignored"]
    /\ last.op = "event" /\ ends_with_model_json(last.path) =>
          /\ last.action = "ignored"
          /\ last.log = <<>>
          /\ Before = Unwrap(last.before)

\* C12 witness: the event for an artifact path was handled while the graph
\* held an edge and the alias table an entry
C12_Witness ==
    /\ last.op = "event"
    /\ last.action = "ignored"
    /\ ends_with_model_json(last.path)
    /\ DOMAIN dependencies.left_to_right # {}
    /\ DOMAIN Unwrap(luaurc).aliases # {}
    /\ DOMAIN artifacts # {}

\* C13: after remove_by_left(l), l is no key of left_to_right and a member of
\* no set of right_to_left, and a right value whose only left was l is no
\* key of right_to_left; the same for remove_by_right with the sides swapped
C13_RemoveByKey ==
    /\ last.op = "remove_by_left" =>
          /\ last.left \notin DOMAIN dependencies.left_to_right
          /\ \A r \in DOMAIN dependencies.right_to_left :
                last.left \notin dependencies.right_to_left[r]
          /\ \A r \in MapPaths :
                get_by_right(Unwrap(last.before).deps, r) = Some({last.left})
                    => r \notin DOMAIN dependencies.right_to_left
    /\ last.op = "remove_by_right" =>
          /\ last.right \notin DOMAIN dependencies.right_to_left
          /\ \A l \in DOMAIN dependencies.left_to_right :
                last.right \notin dependencies.left_to_right[l]
          /\ \A l \in MapPaths :
                get_by_left(Unwrap(last.before).deps, l) = Some({last.right})
                    => l \notin DOMAIN dependencies.left_to_right

\* C13 witness: remove_by_left(l) where l had a right value of its own, whose
\* key went, and a right value shared with another left, whose key stays,
\* while l itself stays a right value of the map
C13_Witness ==
    /\ last.op = "remove_by_left"
    /\ \E r \in MapPaths :
          /\ get_by_right(Unwrap(last.before).deps, r) = Some({last.left})
          /\ r \notin DOMAIN dependencies.right_to_left
    /\ \E r \in MapPaths :
          /\ last.left \in Members(get_by_right(Unwrap(last.before).deps, r))
          /\ Cardinality(Members(get_by_right(dependencies, r))) = 1
    /\ last.left \in DOMAIN dependencies.right_to_left

\* C14: insert is idempotent: in every map state and for every pair (l, r),
\* insert(l, r) done twice leaves the map that insert(l, r) done once leaves,
\* and r is in get_by_left(l) and l in get_by_right(r)
C14_InsertIdempotent ==
    /\ \A l \in MapPaths, r \in MapPaths :
          /\ insert(insert(dependencies, l, r), l, r) = insert(dependencies, l, r)
          /\ r \in Members(get_by_left(insert(dependencies, l, r), l))
          /\ l \in Members(get_by_right(insert(dependencies, l, r), r))
    /\ (/\ last.op = "insert"
        /\ last.right \in Members(get_by_left(Unwrap(last.before).deps, last.left)))
       => dependencies = Unwrap(last.before).deps

\* C14 witness: an insert of a pair the map already held, among other pairs
\* of the same left and of the same right
C14_Witness ==
    /\ last.op = "insert"
    /\ last.right \in Members(get_by_left(Unwrap(last.before).deps, last.left))
    /\ Cardinality(Members(get_by_left(dependencies, last.left))) = 2
    /\ Cardinality(Members(get_by_right(dependencies, last.right))) = 2

\* C15: a source file that cannot be read while it is compiled is skipped:
\* the scan or the event handler goes on and returns, and the watch loop
\* lives on to handle later events
C15_CompileErrorSkipped ==
    /\ last.op \in {"initialize", "event"} => last.status # "panic"
    /\ pc # "panicked"

\* C16: the context has one writer at a time: until the startup scan has
\* returned every step is that scan and no event is handled, and from then
\* on the Dependency Graph and the alias state change only in a step of the
\* watch loop handling an event
C16_SingleWriter ==
    [][/\ pc = "new" => (last'.op = "initialize" /\ nevents' = nevents)
       /\ (pc # "new" /\ <<dependencies, luaurc>>' # <<dependencies, luaurc>>)
             => (pc = "watching" /\ last'.op = "event" /\ nevents' = nevents + 1)]_vars

\* C16 witness: after the startup scan compiled the sources and filled the
\* graph, the watch loop handled an event that changed the graph
C16_Witness ==
    /\ last.op = "event"
    /\ last.status = "ok"
    /\ Cardinality(Unwrap(last.before).fresh) = 2
    /\ Unwrap(last.before).deps # MultiBiMap_new
    /\ Unwrap(last.before).deps # dependencies

\* C17: after the event for a deleted source path was handled, the artifact
\* compiled from it no longer exists at the output path the source maps to,
\* whether the output directory is the input directory or another one
C17_DeleteRemovesArtifact ==
    (/\ Returned("delete")
     /\ ArtifactOf(last.path) \in DOMAIN Unwrap(last.before).arts
     /\ SourceOf(Unwrap(last.before).arts[ArtifactOf(last.path)].id) = last.path)
    => ArtifactOf(last.path) \notin DOMAIN artifacts

\* C18: after prune_dependencies(deleted_path) no key of left_to_right and no
\* key of right_to_left of the dependency graph has deleted_path as a path
\* prefix, and with a configuration bound no path that is a key of the
\* alias dependants has it either
C18_PruneBothSides ==
    last.op = "prune" =>
        /\ \A k \in DOMAIN dependencies.left_to_right : ~starts_with(k, last.left)
        /\ \A k \in DOMAIN dependencies.right_to_left : ~starts_with(k, last.left)
        /\ luaurc # None =>
               \A k \in DOMAIN Unwrap(luaurc).dependants.right_to_left : ~starts_with(k, last.left)

\* C19: for every path and every state of the disk and of the context in
\* which the loop takes an event, handle_vfs_event takes the same branch and
\* leaves the same context and the same files whether the event is tagged
\* Create, Write or Remove
C19_KindIndependent ==
    (Started /\ nevents < MaxEvents) =>
        \A path \in EventPaths, kind \in {"Write", "Remove"} :
            \A order \in ScanOrders(path) :
                handle_vfs_event(kind, path, World, sources, luaurc_file,
                                 input_dir, output_dir, order)
                = handle_vfs_event("Create", path, World, sources, luaurc_file,
                                   input_dir, output_dir, order)

\* C19 witness: the event of a source file that is on the disk was handled
\* and compiled it, which is what the handler does with the event tagged Remove
C19_Witness ==
    /\ last.op = "event"
    /\ last.action = "compile"
    /\ last.path \in DOMAIN sources
    /\ last.log # <<>>
    /\ handle_vfs_event("Remove", last.path,
                        Unwrap(last.before) @@ [log |-> <<>>, status |-> "ok", ro |-> readonly],
                        sources, luaurc_file, input_dir, output_dir, <<>>).w.arts = artifacts

\* C20: after the configuration file was deleted and the event of its path
\* was handled, the stored alias table is the empty table and the handler
\* compiled no source file
C20_DeletedLuaurcEmptiesTable ==
    (/\ last.op = "event"
     /\ last.path = LuaurcPath
     /\ luaurc # None
     /\ luaurc_file = None)
    => /\ Unwrap(luaurc).aliases = EmptyTable
       /\ \A i \in DOMAIN last.log : last.log[i].act # "write"

\* C30: remove_by_left(l) changes no edge whose left value is not l: every
\* pair (l2, r) with l2 # l is in either map after the call exactly when it
\* was before, and when l is no key both maps are left as they were;
\* remove_by_right is the same with the sides swapped
C30_RemoveFrame ==
    /\ \A l \in MapPaths :
          /\ \A l2 \in MapPaths \ {l}, r \in MapPaths :
                /\ r \in Members(get_by_left(remove_by_left(dependencies, l), l2))
                      <=> r \in Members(get_by_left(dependencies, l2))
                /\ l2 \in Members(get_by_right(remove_by_left(dependencies, l), r))
                      <=> l2 \in Members(get_by_right(dependencies, r))
          /\ l \notin DOMAIN dependencies.left_to_right
                => remove_by_left(dependencies, l) = dependencies
    /\ \A r \in MapPaths :
          /\ \A r2 \in MapPaths \ {r}, l \in MapPaths :
                /\ l \in Members(get_by_right(remove_by_right(dependencies, r), r2))
                      <=> l \in Members(get_by_right(dependencies, r2))
                /\ r2 \in Members(get_by_left(remove_by_right(dependencies, r), l))
                      <=> r2 \in Members(get_by_left(dependencies, l))
          /\ r \notin DOMAIN dependencies.right_to_left
                => remove_by_right(dependencies, r) = dependencies
    /\ (last.op = "remove_by_left" /\ last.left \notin DOMAIN Unwrap(last.before).deps.left_to_right)
          => dependencies = Unwrap(last.before).deps
    /\ (last.op = "remove_by_right" /\ last.right \notin DOMAIN Unwrap(last.before).deps.right_to_left)
          => dependencies = Unwrap(last.before).deps

\* C30 witness: remove_by_left(l) took l out of the set of a right value that
\* another left shares, whose edge stays in both maps, while some path is no
\* left key of the map
C30_Witness ==
    /\ last.op = "remove_by_left"
    /\ last.left \in DOMAIN Unwrap(last.before).deps.left_to_right
    /\ \E r \in MapPaths, l2 \in MapPaths \ {last.left} :
          /\ {last.left, l2} \subseteq Members(get_by_right(Unwrap(last.before).deps, r))
          /\ l2 \in Members(get_by_right(dependencies, r))
          /\ r \in Members(get_by_left(dependencies, l2))
    /\ \E l3 \in MapPaths : l3 \notin DOMAIN dependencies.left_to_right

\* C21: in the startup scan with an output directory that is not the input
\* directory, every removal of an artifact comes before the first compile:
\* no write of the scan is followed by a removal
C21_CleanBeforeCreate ==
    (last.op = "initialize" /\ input_dir # output_dir) =>
        \A i \in DOMAIN last.log, j \in DOMAIN last.log :
            (last.log[i].act = "write" /\ last.log[j].act = "remove") => j < i

\* C21 witness: a startup scan with two directories that removed an artifact
\* of an earlier run and compiled two source files
C21_Witness ==
    /\ last.op = "initialize"
    /\ input_dir # output_dir
    /\ \E j \in DOMAIN last.log : last.log[j].act = "remove"
    /\ Cardinality({i \in DOMAIN last.log : last.log[i].act = "write"}) = 2

\* C22: when the startup scan has returned, every source file of the input
\* directory has an artifact at the path it maps to, with one directory or
\* two, for every listing order, also with artifacts of an earlier run on disk
C22_ScanCompilesAll ==
    (last.op = "initialize" /\ last.status = "ok") =>
        \A f \in DOMAIN sources : ArtifactOf(f) \in DOMAIN artifacts

\* C23: when the startup scan has returned, the dependency graph holds the
\* edge (A, D) for every source file D of the input directory and every
\* file A that a derive of D names
C23_ScanBuildsGraph ==
    (last.op = "initialize" /\ last.status = "ok") =>
        \A D \in DOMAIN sources :
            \A d \in sources[D] :
                /\ D \in Members(get_by_left(dependencies, derive_to_path_buf(d, D)))
                /\ derive_to_path_buf(d, D) \in Members(get_by_right(dependencies, D))

\* C23 witness: a startup scan that returned with two source files on disk,
\* one deriving the other, and the edge of the two in the graph
C23_Witness ==
    /\ last.op = "initialize"
    /\ last.status = "ok"
    /\ DOMAIN sources = SourcePaths
    /\ Derives(RsmlFile("b"), RsmlFile("a"))
    /\ RsmlFile("b") \in Members(get_by_left(dependencies, RsmlFile("a")))

\* a derive of f names g, in the texts src
DerivesIn(src, f, g) ==
    /\ f \in DOMAIN src
    /\ g \in {derive_to_path_buf(d, f) : d \in src[f]}

\* the derives of three files form a cycle A -> B -> C -> A
ThreeCycle(src) ==
    \E A \in CyclePaths, B \in CyclePaths, C \in CyclePaths :
        /\ Cardinality({A, B, C}) = 3
        /\ DerivesIn(src, A, B)
        /\ DerivesIn(src, B, C)
        /\ DerivesIn(src, C, A)

\* no file reaches itself along the derives of the texts src
Acyclic(src) ==
    /\ \A f \in CyclePaths : ~DerivesIn(src, f, f)
    /\ \A f \in CyclePaths, g \in CyclePaths : ~(DerivesIn(src, f, g) /\ DerivesIn(src, g, f))
    /\ ~ThreeCycle(src)

\* C24: with three source files whose derives form a cycle A -> B -> C -> A,
\* the handler of an event for one of them does not return: the recursion
\* runs until the stack is exhausted
C24_ThreeCycleDiverges ==
    (last.op = "event" /\ last.path \in CyclePaths /\ ThreeCycle(sources)) =>
        (last.status = "overflow" /\ pc = "overflow")

\* C24 witness: the event of a file of a cycle of three was handled
C24_Witness ==
    /\ last.op = "event"
    /\ last.path \in CyclePaths
    /\ ThreeCycle(sources)
    /\ pc = "overflow"

\* C25: when the derives of the source files form no cycle, the handler of
\* any one event returns: the propagation of create_file compiles finitely
\* many times
C25_AcyclicTerminates ==
    (last.op = "event" /\ Acyclic(sources)) => last.status # "overflow"

\* C26: when a receive from the VFS event channel has returned an error, the
\* watch loop is over: the thread is at no further receive
C26_RecvErrorEndsLoop ==
    last.op = "recv_error" => ~Started

\* C28: when the write of an artifact has failed in the handler of an event,
\* the watch loop lives on, ready to receive the next event
C28_WriteFailureSurvived ==
    (/\ last.op = "event"
     /\ \E i \in DOMAIN last.log : last.log[i].act = "write_failed")
    => Started

\* C27: once the shutdown channel is signalled the thread leaves its loop in
\* the end, whatever events keep arriving, and once it has left nothing is
\* handled: the context, the files and the record of the last handler stay
C27_ShutdownStops ==
    /\ (shutdown /\ Started) ~> ~Started
    /\ [][pc = "stopped" =>
            /\ pc' = "stopped"
            /\ <<dependencies, luaurc, artifacts, last, nevents>>'
                 = <<dependencies, luaurc, artifacts, last, nevents>>]_vars

\* C27 witness: the thread left its loop on the signal after it had handled
\* the event of a rewritten source file
C27_Witness ==
    /\ pc = "stopped"
    /\ shutdown
    /\ last.op = "event"
    /\ last.action = "compile"
    /\ nedits > 0

\* the listing o keeps the files that the listing order held in the order they had
KeepsOrder(o, order) ==
    \A i, j \in DOMAIN o, k, l \in DOMAIN order :
        (i < j /\ o[i] = order[l] /\ o[j] = order[k]) => l < k

\* the listings of the disk a handler left, for a path that is a directory:
\* the files that stayed are listed in the order of the listing before
OrdersAfter(path, w, order) ==
    IF is_dir(normalize(path))
    THEN {o \in Orders((DOMAIN sources) \cup (DOMAIN w.arts)) : KeepsOrder(o, order)}
    ELSE {<<>>}

\* the same event handled again, right after the handler that left r
HandledAgain(r, kind, path, order) ==
    handle_vfs_event(kind, path, [r.w EXCEPT !.log = <<>>], sources, luaurc_file,
                     input_dir, output_dir, order)

\* the handler that left r2 changed nothing that the one that left r had done
SameContext(r, r2) ==
    /\ r2.w.status = "ok"
    /\ r2.w.deps = r.w.deps
    /\ r2.w.lua = r.w.lua
    /\ r2.w.arts = r.w.arts

IdempotentFrom(r, kind, path, order) ==
    r.w.status = "ok" =>
        \A order2 \in OrdersAfter(path, r.w, order) :
            SameContext(r, HandledAgain(r, kind, path, order2))

\* C29: an event handled twice in a row, with no change of the disk between,
\* leaves the dependency graph, the alias table, the alias dependants and
\* the artifact files as the event handled once leaves them
C29_HandleIdempotent ==
    (Started /\ nevents < MaxEvents) =>
        \A path \in EventPaths, kind \in EventKinds :
            \A order \in ScanOrders(path) :
                IdempotentFrom(handle_vfs_event(kind, path, World, sources, luaurc_file,
                                                input_dir, output_dir, order),
                               kind, path, order)

====
